---------------------------- MODULE Spec2Model ----------------------------
(***************************************************************************)
(* Model of plot/src/bin/plotcharts.rs: the batch loop of main, run,       *)
(* read_csv, plot_dataframe, plot, line_chart and as_datetime_vector.      *)
(*                                                                         *)
(* Times are seconds.  A date is a day number, a NaiveDateTime is          *)
(* date * SecondsPerDay + second of the day.  An Option<T> is None (<<>>)  *)
(* or Some(x) (<<x>>).                                                     *)
(***************************************************************************)
EXTENDS Integers, Sequences, FiniteSets, TLC

VARIABLES
    files,        \* main: csv_files, the CSV files of the directory
    overwrite,    \* main: cli.overwrite
    fileIdx,      \* main: position of the for loop over csv_files
    pc,           \* where the program is
    df,           \* run: the sorted data frame of the current file
    sensor_ids,   \* plot_dataframe: the roster of sensor ids
    panel,        \* plot_dataframe: the next plot call (1..7)
    events,       \* what was done to the root drawing area of the current file
    charts,       \* the panels drawn for the current file
    result,       \* run: the Result returned for the current file
    reports,      \* main: the lines printed so far
    dtInput,      \* as_datetime_vector: the series it is given
    dtOutput,     \* as_datetime_vector: what it returned
    tick,         \* custom_x_label_formatter: the tick time it is given
    tickLabel,    \* custom_x_label_formatter: the label it returned
    rosterLen,    \* sensor loop of plot: the length of sensor_ids
    colorIndex,   \* sensor loop of plot: the index of enumerate()
    colorsUsed    \* sensor loop of plot: the line styles handed to line_chart

vars == <<files, overwrite, fileIdx, pc, df, sensor_ids, panel, events, charts,
          result, reports, dtInput, dtOutput, tick, tickLabel, rosterLen,
          colorIndex, colorsUsed>>

pipelineVars == <<files, overwrite, fileIdx, pc, df, sensor_ids, panel, events,
                  charts, result, reports>>
datetimeVars == <<dtInput, dtOutput>>
labelVars == <<tick, tickLabel>>
colorVars == <<rosterLen, colorIndex, colorsUsed>>
functionVars == <<dtInput, dtOutput, tick, tickLabel, rosterLen, colorIndex,
                  colorsUsed>>

---------------------------------------------------------------------------
(* Bounds of the model *)

MaxRows == 2          \* rows of a CSV file
MaxFiles == 2         \* CSV files of a batch
MaxRoster == 14       \* sensors of a roster in the colour loop
MaxStamps == 2        \* timestamps of a series given to as_datetime_vector
MaxTickDay == 2       \* days a tick time is drawn from

---------------------------------------------------------------------------
(* Program constants *)

SecondsPerDay == 86400
SecondsPerHour == 3600
TokyoUtcOffset == 32400
PaletteSize == 6
GridRows == 4
GridCols == 2
GridCells == GridRows * GridCols

None == <<>>
Some(x) == <<x>>
Unwrap(o) == o[1]

\* mod colname: the quantity columns
TEMPERATURE == "temperature"
RELATIVE_HUMIDITY == "humidity"
ABSOLUTE_HUMIDITY == "absolute_humidity"
PRESSURE == "pressure"
TVOC == "tvoc"
ECO2 == "eCo2"
CO2 == "co2"

Quantities == {TEMPERATURE, RELATIVE_HUMIDITY, ABSOLUTE_HUMIDITY, PRESSURE,
               TVOC, ECO2, CO2}

COLOR_PALETTE == <<"BLUE", "ORANGE", "GREEN", "PINK", "CYAN", "DEEPORANGE">>

\* the pressure and the relative humidity panels in each other's place
PanelColumnsSwapped == <<TEMPERATURE, RELATIVE_HUMIDITY, PRESSURE, ABSOLUTE_HUMIDITY,
                         CO2, TVOC, ECO2>>

\* plot_dataframe: the seven plot calls, in the order of the code
PanelColumns == <<TEMPERATURE, PRESSURE, RELATIVE_HUMIDITY, ABSOLUTE_HUMIDITY,
                  CO2, TVOC, ECO2>>

---------------------------------------------------------------------------
(* Dates and times *)

Date(t) == t \div SecondsPerDay
SecondOfDay(t) == t % SecondsPerDay
Hour(t) == SecondOfDay(t) \div SecondsPerHour
Midnight(date) == date * SecondsPerDay

\* tz.from_utc_datetime(t).naive_local() for tz = Asia::Tokyo, which is
\* UTC+9 all year for every instant after 1951
NaiveLocal(t) == t + TokyoUtcOffset

\* strptime "%Y-%m-%dT%H:%M:%S%z", strict: false: the UTC instant of the
\* text, null for a text that does not conform
Strptime(text) ==
    IF text.conforms
    THEN Some(text.date * SecondsPerDay + text.time - text.offset)
    ELSE None

SeqMin(s) == CHOOSE x \in {s[i] : i \in 1..Len(s)} :
                 \A j \in 1..Len(s) : x <= s[j]
SeqMax(s) == CHOOSE x \in {s[i] : i \in 1..Len(s)} :
                 \A j \in 1..Len(s) : x >= s[j]

---------------------------------------------------------------------------
(* as_datetime_vector (lines 67-106) *)

DatetimeError(kind) ==
    [ok |-> FALSE, error |-> kind, datetimes |-> <<>>, range |-> <<0, 0>>]

\* lines 93-96: midnight of the date of the minimum
DayStart(local_datetimes) == Midnight(Date(SeqMin(local_datetimes)))

\* the end of the range without the day added
DayEndSameDay(local_datetimes) == Midnight(Date(SeqMax(local_datetimes)))

\* lines 98-101: midnight of the day after the date of the maximum
DayEnd(local_datetimes) == Midnight(Date(SeqMax(local_datetimes)) + 1)

\* lines 78-81: UTC to local
LocalDatetimes(original_datetimes) ==
    [i \in 1..Len(original_datetimes) |-> NaiveLocal(original_datetimes[i])]

\* series: a sequence of Option<UTC instant>
as_datetime_vector(series) ==
    IF \E i \in 1..Len(series) : series[i] = None
    THEN DatetimeError("ComputeError: datetime parse error")
    ELSE LET original_datetimes == [i \in 1..Len(series) |-> Unwrap(series[i])]
             local_datetimes == LocalDatetimes(original_datetimes)
         IN  IF Len(local_datetimes) = 0
             THEN DatetimeError("NoData: datetime")
             ELSE [ok |-> TRUE, error |-> "",
                   datetimes |-> local_datetimes,
                   range |-> <<DayStart(local_datetimes),
                               DayEnd(local_datetimes)>>]

---------------------------------------------------------------------------
(* custom_x_label_formatter (lines 185-191) *)

\* t.format("%Y-%m-%d %a"): the date and its weekday (day 0 is a Thursday)
FormatDate(t) ==
    [form |-> "%Y-%m-%d %a", date |-> Date(t), weekday |-> (Date(t) + 4) % 7,
     hour |-> 0, minute |-> 0, second |-> 0]

\* t.format("%H:%M:%S")
FormatTime(t) ==
    [form |-> "%H:%M:%S", date |-> 0, weekday |-> 0,
     hour |-> Hour(t), minute |-> (SecondOfDay(t) % SecondsPerHour) \div 60,
     second |-> SecondOfDay(t) % 60]

\* line 186: the test that picks the date form
LabelIsDate(t) == Hour(t) = 0

custom_x_label_formatter(t) ==
    IF LabelIsDate(t) THEN FormatDate(t) ELSE FormatTime(t)

---------------------------------------------------------------------------
(* line 230: COLOR_PALETTE.get(index).unwrap_or(&COLOR_PALETTE[0]) *)

\* the palette taken round and round
SensorColorCycling(index) == COLOR_PALETTE[(index % PaletteSize) + 1]

SensorColor(index) ==
    IF index < PaletteSize THEN COLOR_PALETTE[index + 1] ELSE COLOR_PALETTE[1]

---------------------------------------------------------------------------
(* read_csv (lines 47-64) and the sort of run (lines 364-366) *)

\* lines 51-63: measuredAt is overwritten with the parsed column
ParseRow(r) ==
    [sensorId |-> r.sensorId, measuredAt |-> Strptime(r.measuredAt), val |-> r.val]

read_csv(csv) == [i \in 1..Len(csv) |-> ParseRow(csv[i])]

\* sort key of SortOptions::default(): ascending, nulls first
SortsBefore(a, b) ==
    \/ a = None
    \/ a # None /\ b # None /\ Unwrap(a) <= Unwrap(b)

IsSortedBy(ldf, order) ==
    \A i \in 1..(Len(order) - 1) :
        SortsBefore(ldf[order[i]].measuredAt, ldf[order[i + 1]].measuredAt)

RowOrders(n) == {f \in [1..n -> 1..n] : \A i, j \in 1..n : i # j => f[i] # f[j]}

\* the frames sort(MEASURED_AT) can return: the sort is not stable, so rows
\* with the same measuredAt come out in any order
SortedFrames(ldf) ==
    {[i \in 1..Len(ldf) |-> ldf[order[i]]] :
        order \in {o \in RowOrders(Len(ldf)) : IsSortedBy(ldf, o)}}

---------------------------------------------------------------------------
(* plot (lines 145-241) *)

RowIndices(frame) == [i \in 1..Len(frame) |-> i]

\* the filters without the one on the sensor id
KeptWithoutSensorFilter(frame, column_name, i) ==
    /\ frame[i].measuredAt # None
    /\ frame[i].val[column_name] # None

\* the filters without the one on measuredAt
KeptWithoutTimestampFilter(frame, column_name, i) ==
    /\ frame[i].sensorId # None
    /\ frame[i].val[column_name] # None

\* lines 156-165: the rows of the frame (by index) that the three filters keep
KeptByFilters(frame, column_name, i) ==
    /\ frame[i].sensorId # None
    /\ frame[i].measuredAt # None
    /\ frame[i].val[column_name] # None

FilteredRows(frame, column_name) ==
    LET Keep(i) == KeptByFilters(frame, column_name, i)
    IN  SelectSeq(RowIndices(frame), Keep)

\* a filter that keeps the rows of every sensor
SensorMatchesAny(cell, sensor_id) == cell # None

\* line 212: filter(col(SENSOR_ID).eq(lit(sensor_id))); null equals nothing
SensorMatches(cell, sensor_id) == cell # None /\ Unwrap(cell) = sensor_id

SensorRows(frame, rows, sensor_id) ==
    LET Keep(i) == SensorMatches(frame[i].sensorId, sensor_id)
    IN  SelectSeq(rows, Keep)

\* the loop without the continue
SkipNoSensor(sensor_rows) == FALSE

\* line 215: sensor_df[0].is_empty()
SkipSensor(sensor_rows) == Len(sensor_rows) = 0

MeasuredAtColumn(frame, rows) == [k \in 1..Len(rows) |-> frame[rows[k]].measuredAt]
ValueColumn(frame, rows, column_name) ==
    [k \in 1..Len(rows) |-> Unwrap(frame[rows[k]].val[column_name])]

\* line 228: izip!(&datetimes, &values); row is the row of df the pair is from
Dataset(rows, datetimes, values) ==
    [k \in 1..Len(rows) |-> [row |-> rows[k], t |-> datetimes[k], v |-> values[k]]]

\* lines 109-142: what line_chart adds to the chart: the points and the line of
\* the dataset in line_style, and the legend entry labelled sensor_id
line_chart(dataset, sensor_id, line_style) ==
    [label |-> sensor_id, color |-> line_style, points |-> dataset]

\* lines 207-232: the loop over the roster, from index on
RECURSIVE SensorLoop(_, _, _, _, _)
SensorLoop(frame, rows, column_name, roster, index) ==
    IF index >= Len(roster)
    THEN [ok |-> TRUE, error |-> "", series |-> <<>>]
    ELSE LET sensor_id == roster[index + 1]
             sensor_rows == SensorRows(frame, rows, sensor_id)
         IN  IF SkipSensor(sensor_rows)
             THEN SensorLoop(frame, rows, column_name, roster, index + 1)
             ELSE LET dv == as_datetime_vector(MeasuredAtColumn(frame, sensor_rows))
                      values == ValueColumn(frame, sensor_rows, column_name)
                      rest == SensorLoop(frame, rows, column_name, roster, index + 1)
                  IN  IF ~dv.ok
                      THEN [ok |-> FALSE, error |-> dv.error, series |-> <<>>]
                      ELSE IF ~rest.ok
                      THEN rest
                      ELSE [ok |-> TRUE, error |-> "",
                            series |-> <<line_chart(
                                           Dataset(sensor_rows, dv.datetimes, values),
                                           sensor_id, SensorColor(index))>>
                                       \o rest.series]

PlotError(kind) ==
    [ok |-> FALSE, error |-> kind, column |-> "", x_range |-> <<0, 0>>,
     y_range |-> <<0, 0>>, series |-> <<>>]

\* lines 169-176: the range of the Y axis
YRange(values) == <<SeqMin(values), SeqMax(values)>>

\* frame: the frame of the file; float_columns: the columns read as f64
plot(frame, column_name, roster, float_columns) ==
    LET rows == FilteredRows(frame, column_name)
        dv == as_datetime_vector(MeasuredAtColumn(frame, rows))
    IN  IF ~dv.ok
        THEN PlotError(dv.error)
        ELSE IF column_name \notin float_columns
        THEN PlotError("SchemaMismatch")
        ELSE IF Len(rows) = 0
        THEN PlotError("value is empty")
        ELSE LET loop == SensorLoop(frame, rows, column_name, roster, 0)
             IN  IF ~loop.ok
                 THEN PlotError(loop.error)
                 ELSE [ok |-> TRUE, error |-> "", column |-> column_name,
                       x_range |-> dv.range,
                       y_range |-> YRange(ValueColumn(frame, rows, column_name)),
                       series |-> loop.series]

---------------------------------------------------------------------------
(* plot_dataframe (lines 244-336): the roster *)

\* line 258: into_no_null_iter() yields the empty text for the null group
RosterName(cell) == IF cell = None THEN "" ELSE Unwrap(cell)

\* lines 252-256: groupby([col(SENSOR_ID)]): the distinct cells of the column
SensorGroups(frame) == {frame[i].sensorId : i \in 1..Len(frame)}

\* the rosters the groupby can return: the groups come in any order
Rosters(frame) ==
    LET groups == SensorGroups(frame)
        n == Cardinality(groups)
    IN  {[i \in 1..n |-> RosterName(f[i])] :
            f \in {g \in [1..n -> groups] : \A i, j \in 1..n : i # j => g[i] # g[j]}}

---------------------------------------------------------------------------
(* Inputs *)

SensorNames == {"A", "B"}
SensorCells == {None} \cup {Some(n) : n \in SensorNames}

NotADate == [conforms |-> FALSE, date |-> 0, time |-> 0, offset |-> 0]

\* "D1T09:00:00+0900" and "D1T15:00:00+0000" (midnight of day 2 in Tokyo)
TimeTexts ==
    {NotADate,
     [conforms |-> TRUE, date |-> 1, time |-> 9 * SecondsPerHour,
      offset |-> TokyoUtcOffset],
     [conforms |-> TRUE, date |-> 1, time |-> 15 * SecondsPerHour, offset |-> 0]}

\* the quantity cells of a row: the quantities of profile are v, the others
\* are empty
RowValues(profile, v) == [q \in Quantities |-> IF q \in profile THEN Some(v) ELSE None]

\* a row reports every quantity, or every quantity but the absolute humidity
RowCells ==
    {RowValues(Quantities, 10), RowValues(Quantities, 12),
     RowValues(Quantities \ {ABSOLUTE_HUMIDITY}, 10)}

CsvRows ==
    {[sensorId |-> s, measuredAt |-> t, val |-> cells] :
        s \in SensorCells, t \in TimeTexts, cells \in RowCells}

CsvTables == UNION {[1..n -> CsvRows] : n \in 0..MaxRows}

\* the tables the file turns out to hold when it is read
Contents(file) == IF file.anyTable THEN CsvTables ELSE {file.csv}

\* a readable file of float columns that holds csv and whose output does not
\* exist yet
PlainFile(csv) ==
    [anyTable |-> FALSE, csv |-> csv, outExists |-> FALSE, readable |-> TRUE,
     float_columns |-> Quantities]

\* such a file whose rows are not fixed before read_csv reads them: it may
\* turn out to hold any table of CsvTables
UnreadFile == [PlainFile(<<>>) EXCEPT !.anyTable = TRUE]

\* one row of sensor A reporting every quantity
FullTable ==
    <<[sensorId |-> Some("A"),
       measuredAt |-> [conforms |-> TRUE, date |-> 1, time |-> 9 * SecondsPerHour,
                       offset |-> TokyoUtcOffset],
       val |-> RowValues(Quantities, 10)]>>

\* files that run refuses or fails on for another reason than the rows
OddFiles ==
    {[PlainFile(FullTable) EXCEPT !.outExists = TRUE],
     [PlainFile(FullTable) EXCEPT !.readable = FALSE],
     [PlainFile(FullTable) EXCEPT !.float_columns = Quantities \ {CO2}]}

\* the files of a batch
BatchFiles ==
    OddFiles \cup
    {PlainFile(FullTable),
     PlainFile(<<>>),
     PlainFile(<<[FullTable[1] EXCEPT !.val = RowValues({TEMPERATURE}, 12)]>>),
     PlainFile(<<[FullTable[1] EXCEPT !.measuredAt = NotADate]>>)}

Batches == UNION {[1..n -> BatchFiles] : n \in 0..MaxFiles}

StampCells ==
    {None} \cup
    {Some(Midnight(d) + s) :
        d \in {1, 2},
        s \in {0, 1, 15 * SecondsPerHour - 1, 15 * SecondsPerHour,
               SecondsPerDay - 1}}

StampSeries == UNION {[1..n -> StampCells] : n \in 0..MaxStamps}

TickTimes ==
    {Midnight(d) + h * SecondsPerHour + s :
        d \in 1..MaxTickDay, h \in 0..23, s \in {0, 1, 1800, SecondsPerHour - 1}}

---------------------------------------------------------------------------
(* run (lines 345-380) and main (lines 395-426) *)

Ok(text) == [ok |-> TRUE, text |-> text]
Err(text) == [ok |-> FALSE, text |-> text]

\* lines 265-328: the k-th plot call draws on the k-th area of split_evenly
PanelCell(k) == k

\* a failed panel is left out and the next one is drawn
AfterPlotSkipFailed(ok, k) == IF k < Len(PanelColumns) THEN "plot" ELSE "present"

\* the ? after each plot call, and present after the last one
AfterPlot(ok, k) ==
    IF ~ok THEN "report"
    ELSE IF k < Len(PanelColumns) THEN "plot" ELSE "present"

\* the loop left at the first error
AfterReportStopOnError(ok) == IF ok THEN "main" ELSE "done"

\* lines 419-423: unwrap_or_else turns the error into the text to print, and
\* the for loop goes on with the next file
AfterReport(ok) == "main"

NoFrame == <<>>

\* lines 419-420 and 352-362: the for loop calls run on the next file; the
\* output file must not exist unless --overwrite
MainNextFile ==
    /\ pc = "main"
    /\ fileIdx <= Len(files)
    /\ IF files[fileIdx].outExists /\ ~overwrite
       THEN /\ result' = Some(Err("file is already exist!"))
            /\ pc' = "report"
       ELSE /\ result' = result
            /\ pc' = "read_csv"
    /\ UNCHANGED <<files, overwrite, fileIdx, df, sensor_ids, panel, events,
                   charts, reports, functionVars>>

\* line 425: the loop is over
MainExit ==
    /\ pc = "main"
    /\ fileIdx > Len(files)
    /\ pc' = "done"
    /\ UNCHANGED <<files, overwrite, fileIdx, df, sensor_ids, panel, events,
                   charts, result, reports, functionVars>>

\* lines 364-366: read_csv(infilepath)?.sort(MEASURED_AT, ..).collect()?
RunReadCsv ==
    /\ pc = "read_csv"
    /\ IF ~files[fileIdx].readable
       THEN /\ result' = Some(Err("csv read error"))
            /\ pc' = "report"
            /\ df' = df
       ELSE /\ \E csv \in Contents(files[fileIdx]) :
                   df' \in SortedFrames(read_csv(csv))
            /\ result' = result
            /\ pc' = "plot_dataframe"
    /\ UNCHANGED <<files, overwrite, fileIdx, sensor_ids, panel, events,
                   charts, reports, functionVars>>

\* lines 252-264: the roster, the white background, the 4x2 grid
PlotDataframeBegin ==
    /\ pc = "plot_dataframe"
    /\ GridCells >= Len(PanelColumns) + 1    \* line 265: &areas[..8] matches
    /\ sensor_ids' \in Rosters(df)
    /\ events' = Append(events, [op |-> "fill", cell |-> 0])
    /\ panel' = 1
    /\ pc' = "plot"
    /\ UNCHANGED <<files, overwrite, fileIdx, df, charts, result, reports,
                   functionVars>>

\* lines 267-328: one plot call and its ?
PlotPanel ==
    /\ pc = "plot"
    /\ LET r == plot(df, PanelColumns[panel], sensor_ids,
                     files[fileIdx].float_columns)
       IN  /\ IF r.ok
              THEN /\ charts' = Append(charts,
                                       [cell |-> PanelCell(panel),
                                        column |-> r.column,
                                        x_range |-> r.x_range,
                                        y_range |-> r.y_range,
                                        series |-> r.series])
                   /\ events' = Append(events,
                                       [op |-> "plot", cell |-> PanelCell(panel)])
                   /\ result' = result
              ELSE /\ result' = Some(Err(r.error))
                   /\ UNCHANGED <<charts, events>>
           /\ pc' = AfterPlot(r.ok, panel)
    /\ panel' = panel + 1
    /\ UNCHANGED <<files, overwrite, fileIdx, df, sensor_ids, reports,
                   functionVars>>

\* lines 333-335 and 379: present, and run returns the summary
PlotDataframePresent ==
    /\ pc = "present"
    /\ events' = Append(events, [op |-> "present", cell |-> 0])
    /\ result' = Some(Ok("inputfile -> summary"))
    /\ pc' = "report"
    /\ UNCHANGED <<files, overwrite, fileIdx, df, sensor_ids, panel, charts,
                   reports, functionVars>>

\* lines 420-422: println of the summary or of the error; the locals of the
\* iteration are dropped
MainReport ==
    /\ pc = "report"
    /\ reports' = Append(reports, [file |-> fileIdx, ok |-> Unwrap(result).ok,
                                   text |-> Unwrap(result).text])
    /\ pc' = AfterReport(Unwrap(result).ok)
    /\ fileIdx' = fileIdx + 1
    /\ df' = NoFrame
    /\ sensor_ids' = <<>>
    /\ panel' = 0
    /\ events' = <<>>
    /\ charts' = <<>>
    /\ result' = None
    /\ UNCHANGED <<files, overwrite, functionVars>>

---------------------------------------------------------------------------
(* The functions applied to drawn inputs *)

ApplyDatetimeVector ==
    /\ dtOutput = None
    /\ dtOutput' = Some(as_datetime_vector(dtInput))
    /\ UNCHANGED <<dtInput, labelVars, colorVars, pipelineVars>>

ApplyLabelFormatter ==
    /\ tickLabel = None
    /\ tickLabel' = Some(custom_x_label_formatter(tick))
    /\ UNCHANGED <<tick, datetimeVars, colorVars, pipelineVars>>

\* lines 207 and 230: one turn of the loop over the roster, every sensor
\* having rows
AssignColor ==
    /\ colorIndex < rosterLen
    /\ colorsUsed' = Append(colorsUsed, SensorColor(colorIndex))
    /\ colorIndex' = colorIndex + 1
    /\ UNCHANGED <<rosterLen, datetimeVars, labelVars, pipelineVars>>

---------------------------------------------------------------------------
(* Specifications *)

PipelineIdle ==
    /\ files = <<>>
    /\ overwrite = FALSE
    /\ fileIdx = 1
    /\ pc = "idle"
    /\ df = NoFrame
    /\ sensor_ids = <<>>
    /\ panel = 0
    /\ events = <<>>
    /\ charts = <<>>
    /\ result = None
    /\ reports = <<>>

DatetimeIdle == dtInput = <<>> /\ dtOutput = Some(DatetimeError("idle"))
LabelIdle == tick = 0 /\ tickLabel = Some(FormatTime(0))
ColorIdle == rosterLen = 0 /\ colorIndex = 0 /\ colorsUsed = <<>>

PipelineStart ==
    /\ fileIdx = 1
    /\ pc = "main"
    /\ df = NoFrame
    /\ sensor_ids = <<>>
    /\ panel = 0
    /\ events = <<>>
    /\ charts = <<>>
    /\ result = None
    /\ reports = <<>>

\* one file: a file holding any table of at most MaxRows rows, or an odd file
\* with and without --overwrite
Init ==
    /\ \/ overwrite = FALSE /\ files = <<UnreadFile>>
       \/ overwrite \in BOOLEAN /\ files \in {<<f>> : f \in OddFiles}
    /\ PipelineStart
    /\ DatetimeIdle /\ LabelIdle /\ ColorIdle

\* a batch of at most MaxFiles files
InitBatch ==
    /\ overwrite \in BOOLEAN
    /\ files \in Batches
    /\ PipelineStart
    /\ DatetimeIdle /\ LabelIdle /\ ColorIdle

Next ==
    \/ MainNextFile
    \/ MainExit
    \/ RunReadCsv
    \/ PlotDataframeBegin
    \/ PlotPanel
    \/ PlotDataframePresent
    \/ MainReport

Spec == Init /\ [][Next]_vars

SpecBatch == InitBatch /\ [][Next]_vars

\* as_datetime_vector on every series of at most MaxStamps cells
InitDatetime ==
    /\ PipelineIdle /\ LabelIdle /\ ColorIdle
    /\ dtInput \in StampSeries
    /\ dtOutput = None

SpecDatetime == InitDatetime /\ [][ApplyDatetimeVector]_vars

\* custom_x_label_formatter on every tick time
InitLabel ==
    /\ PipelineIdle /\ DatetimeIdle /\ ColorIdle
    /\ tick \in TickTimes
    /\ tickLabel = None

SpecLabel == InitLabel /\ [][ApplyLabelFormatter]_vars

\* the colours of every roster of at most MaxRoster sensors
InitColor ==
    /\ PipelineIdle /\ DatetimeIdle /\ LabelIdle
    /\ rosterLen \in 1..MaxRoster
    /\ colorIndex = 0
    /\ colorsUsed = <<>>

SpecColor == InitColor /\ [][AssignColor]_vars

---------------------------------------------------------------------------
(* Properties of as_datetime_vector, checked under SpecDatetime *)

DatetimeInputValid ==
    Len(dtInput) > 0 /\ \A i \in 1..Len(dtInput) : dtInput[i] # None

\* C1: for a non-empty series of valid timestamps the returned range
\* [start, end) has start at 00:00:00 and not after any converted local
\* timestamp, and end at 00:00:00 and after every converted local timestamp;
\* start is the midnight of the date of the minimum, end the midnight of the
\* day after the date of the maximum.
AxisRangeIsDayAligned ==
    (dtOutput # None /\ DatetimeInputValid) =>
        LET out == Unwrap(dtOutput)
            start == out.range[1]
            end == out.range[2]
            n == Len(dtInput)
        IN  /\ out.ok
            /\ Len(out.datetimes) = n
            /\ \A i \in 1..n :
                   out.datetimes[i] = Unwrap(dtInput[i]) + 9 * 3600
            /\ start % 86400 = 0
            /\ end % 86400 = 0
            /\ \A i \in 1..n : start <= out.datetimes[i] /\ out.datetimes[i] < end
            /\ \E i \in 1..n : out.datetimes[i] - start < 86400
            /\ \E i \in 1..n : end - out.datetimes[i] <= 86400

\* a series over two dates whose latest local timestamp is exactly midnight
AxisRangeWitness ==
    /\ dtOutput # None
    /\ DatetimeInputValid
    /\ Len(dtInput) = 2
    /\ Unwrap(dtOutput).range[2] - Unwrap(dtOutput).range[1] = 2 * 86400
    /\ \E i \in 1..2 : Unwrap(dtOutput).datetimes[i] + 86400 = Unwrap(dtOutput).range[2]

---------------------------------------------------------------------------
(* Properties of custom_x_label_formatter, checked under SpecLabel *)

\* C10: the tick label has the date and weekday form if and only if the tick
\* is exactly at midnight (00:00:00); at any other time of the day, 00:30:00
\* included, it has the HH:MM:SS form.
DateLabelOnlyAtMidnight ==
    tickLabel # None =>
        (Unwrap(tickLabel).form = "%Y-%m-%d %a" <=> tick % 86400 = 0)

---------------------------------------------------------------------------
(* Properties of the colour assignment, checked under SpecColor *)

\* C3 as stated: the colour of roster index i is COLOR_PALETTE[i mod 6].
ColorIsIndexModuloPalette ==
    \A i \in 0..(Len(colorsUsed) - 1) :
        colorsUsed[i + 1] = COLOR_PALETTE[(i % 6) + 1]

\* C3 amended: the colour of roster index i is COLOR_PALETTE[i] for i < 6,
\* the six being distinct, and COLOR_PALETTE[0], the colour of index 0, for
\* every i >= 6; index 6 and index 7 both get the colour of index 0.
ColorIsIndexOrFirst ==
    /\ \A i \in 0..(Len(colorsUsed) - 1) :
           /\ i < 6 => colorsUsed[i + 1] = COLOR_PALETTE[i + 1]
           /\ i >= 6 => colorsUsed[i + 1] = colorsUsed[1]
    /\ \A i, j \in 0..(Len(colorsUsed) - 1) :
           (i < j /\ j < 6) => colorsUsed[i + 1] # colorsUsed[j + 1]
    /\ Len(colorsUsed) = colorIndex

\* the sensors of index 6 and 7 have their colour
ColorWitness == Len(colorsUsed) >= 8 /\ colorsUsed[8] = "BLUE"

---------------------------------------------------------------------------
(* Properties of plot and plot_dataframe, checked under Spec *)

\* a row with a sensor id, a timestamp and a value of the column
CompleteRow(r, column) ==
    r.sensorId # None /\ r.measuredAt # None /\ r.val[column] # None

\* the column is null in every row
AllNull(frame, column) == \A i \in 1..Len(frame) : frame[i].val[column] = None

SensorHasRows(frame, name, column) ==
    \E i \in 1..Len(frame) :
        frame[i].sensorId = Some(name) /\ CompleteRow(frame[i], column)

RosterSet == {sensor_ids[n] : n \in 1..Len(sensor_ids)}

PlotFailed == result # None /\ ~Unwrap(result).ok /\ panel > 0

\* C2: every pair handed to line_chart for a sensor of the roster comes from
\* a row of that sensor with a timestamp and a value of the quantity, and no
\* row without a sensor id gives a pair to any series.
SeriesPairsComeFromSensorRows ==
    \A c \in 1..Len(charts) : \A s \in 1..Len(charts[c].series) :
        LET column == charts[c].column
            line == charts[c].series[s]
        IN  /\ line.label \in RosterSet
            /\ \A k \in 1..Len(line.points) :
                   LET pair == line.points[k]
                   IN  /\ pair.row \in 1..Len(df)
                       /\ df[pair.row].sensorId # None
                       /\ df[pair.row].sensorId = Some(line.label)
                       /\ df[pair.row].measuredAt # None
                       /\ pair.t = Unwrap(df[pair.row].measuredAt) + 9 * 3600
                       /\ df[pair.row].val[column] # None
                       /\ pair.v = Unwrap(df[pair.row].val[column])

\* a panel with a series drawn from a frame that also holds a row without a
\* sensor id that has a timestamp and a value of the quantity
NullSensorRowWitness ==
    \E c \in 1..Len(charts) : \E i \in 1..Len(df) :
        /\ df[i].sensorId = None
        /\ df[i].measuredAt # None
        /\ df[i].val[charts[c].column] # None
        /\ Len(charts[c].series) = 1

\* C4: when a quantity is null in every row, plot of that quantity returns an
\* error and draws nothing, no later panel is drawn, present is not called
\* and plot_dataframe, and so run, returns the error.
NoDataFailsTheFile ==
    \A k \in 1..Len(PanelColumns) :
        AllNull(df, PanelColumns[k]) =>
            /\ \A c \in 1..Len(charts) : charts[c].cell < k
            /\ \A e \in 1..Len(events) :
                   events[e].op # "present" /\ events[e].cell < k
            /\ pc # "present"
            /\ result # None => ~Unwrap(result).ok
            /\ panel > k =>
                   /\ pc = "report"
                   /\ result = Some(Err("NoData: datetime"))

\* the fourth plot call failed for want of values after three panels were drawn
NoDataWitness ==
    /\ pc = "report"
    /\ Len(df) > 0
    /\ Len(charts) = 3
    /\ AllNull(df, "absolute_humidity")
    /\ ~AllNull(df, "co2")
    /\ ~AllNull(df, "eCo2")
    /\ result = Some(Err("NoData: datetime"))

\* C5: in a panel, a sensor of the roster without a complete row of the
\* quantity gets no series and no legend entry and causes no error, and every
\* sensor of the roster with such a row gets exactly one.
SensorsWithoutRowsAreSkipped ==
    /\ \A c \in 1..Len(charts) :
           /\ \A name \in RosterSet :
                  Cardinality({s \in 1..Len(charts[c].series) :
                                   charts[c].series[s].label = name})
                  = IF SensorHasRows(df, name, charts[c].column) THEN 1 ELSE 0
           /\ \A s \in 1..Len(charts[c].series) :
                  /\ charts[c].series[s].label \in RosterSet
                  /\ Len(charts[c].series[s].points) > 0
    /\ PlotFailed =>
           \/ ~\E i \in 1..Len(df) : CompleteRow(df[i], PanelColumns[panel - 1])
           \/ PanelColumns[panel - 1] \notin files[fileIdx].float_columns

\* sensors A and B are on the roster and a panel has the series of one only
SkippedSensorWitness ==
    /\ {"A", "B"} \subseteq RosterSet
    /\ \E c \in 1..Len(charts) :
           /\ Len(charts[c].series) = 1
           /\ \E name \in {"A", "B"} : ~SensorHasRows(df, name, charts[c].column)

\* C8: the Y range of a drawn panel is exactly the minimum and the maximum of
\* the quantity over the rows with a sensor id, a timestamp and a value, and
\* every plotted value lies in it.
YRangeIsMinMax ==
    \A c \in 1..Len(charts) :
        LET column == charts[c].column
            values == {Unwrap(df[i].val[column]) :
                          i \in {j \in 1..Len(df) : CompleteRow(df[j], column)}}
            ymin == charts[c].y_range[1]
            ymax == charts[c].y_range[2]
        IN  /\ ymin \in values /\ \A v \in values : ymin <= v
            /\ ymax \in values /\ \A v \in values : v <= ymax
            /\ \A s \in 1..Len(charts[c].series) :
                   \A k \in 1..Len(charts[c].series[s].points) :
                       /\ ymin <= charts[c].series[s].points[k].v
                       /\ charts[c].series[s].points[k].v <= ymax

\* a panel of two sensors whose range is not a single value
YRangeWitness ==
    \E c \in 1..Len(charts) :
        /\ charts[c].y_range[1] < charts[c].y_range[2]
        /\ Len(charts[c].series) = 2

\* C9: the background is filled before any panel is drawn, the panels are
\* drawn one at a time in the order temperature, pressure, relative humidity,
\* absolute humidity, CO2, Total VOC, equivalent CO2 on the cells 1 to 7, the
\* eighth cell is never drawn on, and present comes after the seventh panel.
DrawingOrder ==
    LET order == <<"temperature", "pressure", "humidity", "absolute_humidity",
                   "co2", "tvoc", "eCo2">>
    IN  /\ Len(events) <= 9
        /\ \A e \in 1..Len(events) :
               /\ e = 1 <=> events[e].op = "fill"
               /\ e \in 2..8 <=> events[e].op = "plot"
               /\ e = 9 <=> events[e].op = "present"
               /\ events[e].op = "plot" => events[e].cell = e - 1
               /\ events[e].cell # 8
        /\ Len(charts) = Cardinality({e \in 1..Len(events) : events[e].op = "plot"})
        /\ \A c \in 1..Len(charts) :
               charts[c].cell = c /\ charts[c].column = order[c]

\* present was called
DrawingOrderWitness ==
    Len(events) = 9 /\ events[9].op = "present" /\ Len(charts) = 7

---------------------------------------------------------------------------
(* Rows with a text that is no timestamp, checked under Spec *)

\* the frame without the rows whose measuredAt did not parse
CleanFrame(frame) ==
    LET Parsed(r) == r.measuredAt # None
    IN  SelectSeq(frame, Parsed)

\* the panels plot_dataframe draws for a frame and a roster, from the k-th on
RECURSIVE ChartsFrom(_, _, _, _)
ChartsFrom(frame, roster, float_columns, k) ==
    IF k > Len(PanelColumns)
    THEN <<>>
    ELSE LET r == plot(frame, PanelColumns[k], roster, float_columns)
         IN  IF ~r.ok
             THEN <<>>
             ELSE <<[cell |-> PanelCell(k), column |-> r.column,
                     x_range |-> r.x_range, y_range |-> r.y_range,
                     series |-> r.series]>>
                  \o ChartsFrom(frame, roster, float_columns, k + 1)

Pairs(points) == [k \in 1..Len(points) |-> <<points[k].t, points[k].v>>]

\* what is seen of the panels: ranges, and label, colour and points of each line
Drawn(panels) ==
    [c \in 1..Len(panels) |->
        [cell |-> panels[c].cell, column |-> panels[c].column,
         x_range |-> panels[c].x_range, y_range |-> panels[c].y_range,
         lines |-> [s \in 1..Len(panels[c].series) |->
                       [label |-> panels[c].series[s].label,
                        color |-> panels[c].series[s].color,
                        pairs |-> Pairs(panels[c].series[s].points)]]]]

\* the same without the colours and the order of the lines
DrawnUncoloured(panels) ==
    [c \in 1..Len(panels) |->
        [cell |-> panels[c].cell, column |-> panels[c].column,
         x_range |-> panels[c].x_range, y_range |-> panels[c].y_range,
         lines |-> {[label |-> panels[c].series[s].label,
                     pairs |-> Pairs(panels[c].series[s].points)] :
                       s \in 1..Len(panels[c].series)}]]

PlotDataframeReturned == pc = "report" /\ panel > 0

\* C6 as stated: a row whose measuredAt does not parse does not fail the run,
\* is left out of every series and range, and the other rows are rendered
\* exactly as if the row were not in the table.
RenderedAsIfBadRowsAbsent ==
    PlotDataframeReturned =>
        \E roster \in Rosters(CleanFrame(df)) :
            LET expected == ChartsFrom(CleanFrame(df), roster,
                                       files[fileIdx].float_columns, 1)
            IN  /\ Drawn(charts) = Drawn(expected)
                /\ Unwrap(result).ok <=> Len(expected) = Len(PanelColumns)

\* C6 amended: a row whose measuredAt does not parse does not fail the run
\* and is left out of every series and range; the other rows give the panels,
\* the ranges and the points they give without the row, and the colours they
\* get with the sensor of the row kept on the roster: the colours are those
\* of the table without the row when the sensor id of the row (or its missing
\* sensor id) is also on a row with a timestamp, and may differ otherwise.
BadRowsOnlyShiftColours ==
    PlotDataframeReturned =>
        LET clean == CleanFrame(df)
            float_columns == files[fileIdx].float_columns
            kept == ChartsFrom(clean, sensor_ids, float_columns, 1)
        IN  /\ Drawn(charts) = Drawn(kept)
            /\ Unwrap(result).ok <=> Len(kept) = Len(PanelColumns)
            /\ \A roster \in Rosters(clean) :
                   LET expected == ChartsFrom(clean, roster, float_columns, 1)
                   IN  /\ DrawnUncoloured(charts) = DrawnUncoloured(expected)
                       /\ Unwrap(result).ok <=> Len(expected) = Len(PanelColumns)
            /\ SensorGroups(clean) = SensorGroups(df) =>
                   sensor_ids \in Rosters(clean)
            /\ \A c \in 1..Len(charts) : \A s \in 1..Len(charts[c].series) :
                   \A k \in 1..Len(charts[c].series[s].points) :
                       df[charts[c].series[s].points[k].row].measuredAt # None

\* a file with a row whose measuredAt did not parse was drawn to the end
BadRowWitness ==
    /\ PlotDataframeReturned
    /\ Len(CleanFrame(df)) < Len(df)
    /\ Len(charts) = Len(PanelColumns)
    /\ Unwrap(result).ok

---------------------------------------------------------------------------
(* Properties of the batch loop, checked under SpecBatch *)

\* run succeeds on the file: the output may be written, the file is read,
\* and every quantity is a float column with a complete row
FileSucceeds(file) ==
    /\ ~(file.outExists /\ ~overwrite)
    /\ file.readable
    /\ \A q \in Quantities :
           /\ q \in file.float_columns
           /\ \E i \in 1..Len(file.csv) :
                  /\ file.csv[i].sensorId # None
                  /\ file.csv[i].measuredAt.conforms
                  /\ file.csv[i].val[q] # None

\* C7: an error on one file ends the work on that file only: the loop goes
\* on with the files that remain, and one report, the summary or the error
\* text, is printed for each file whatever happened to the files before it.
EveryFileIsReported ==
    /\ Len(reports) = fileIdx - 1
    /\ Len(reports) <= Len(files)
    /\ \A i \in 1..Len(reports) :
           /\ reports[i].file = i
           /\ reports[i].ok <=> FileSucceeds(files[i])
           /\ reports[i].ok <=> reports[i].text = "inputfile -> summary"
    /\ pc = "done" => Len(reports) = Len(files)
    /\ pc # "done" => ENABLED Next

\* the loop ended after a file that failed and a file that was plotted
BatchWitness ==
    /\ pc = "done"
    /\ Len(reports) >= 2
    /\ ~reports[1].ok
    /\ reports[2].ok

=============================================================================
